---------------------------- MODULE Spec2Model ----------------------------
(***************************************************************************)
(* Model of yocto_licenses.py: Licenses.parseManifest and the helpers it   *)
(* calls (userChoice, readConfigFile, updateConfigFile, initConfig), and   *)
(* the views main prints or writes afterwards (printLicenses,              *)
(* printRecipes, printPackages, generateLicenseJson).                      *)
(*                                                                         *)
(* Python strings are TLA+ strings and are split and stripped character by *)
(* character as str.split and str.strip do.  Python lists are sequences.   *)
(* The value None is the string None below for string-valued attributes    *)
(* and the one-element sequence NoneList for list-valued attributes; no    *)
(* manifest, file name or license of the model universe contains it.       *)
(***************************************************************************)
EXTENDS Integers, Sequences, FiniteSets, TLC

None == "<None>"
NoneList == <<None>>

(***************************************************************************)
(* Bounds of the model.                                                    *)
(***************************************************************************)
MaxParagraphs == 2
MaxRuns == 2

(***************************************************************************)
(* str helpers                                                             *)
(***************************************************************************)
Range(s) == {s[i] : i \in DOMAIN s}

CharAt(s, i) == SubSeq(s, i, i)

\* sub in s  (Python's substring test)
Contains(s, sub) ==
    \E i \in 1..(Len(s) - Len(sub) + 1) : SubSeq(s, i, i + Len(sub) - 1) = sub

\* s.startswith(prefix)
StartsWith(s, prefix) ==
    Len(s) >= Len(prefix) /\ SubSeq(s, 1, Len(prefix)) = prefix

IsSpace(c) == c \in {" ", "\n", "\t", "\r"}

RECURSIVE LStrip(_)
LStrip(s) ==
    IF Len(s) > 0 /\ IsSpace(CharAt(s, 1)) THEN LStrip(SubSeq(s, 2, Len(s))) ELSE s

RECURSIVE RStrip(_)
RStrip(s) ==
    IF Len(s) > 0 /\ IsSpace(CharAt(s, Len(s))) THEN RStrip(SubSeq(s, 1, Len(s) - 1)) ELSE s

\* s.strip()
Strip(s) == RStrip(LStrip(s))

\* s.split(sep): the position of the first occurrence of sep at or after i, 0 if none
RECURSIVE FindFrom(_, _, _)
FindFrom(s, sep, i) ==
    IF i + Len(sep) - 1 > Len(s) THEN 0
    ELSE IF SubSeq(s, i, i + Len(sep) - 1) = sep THEN i
    ELSE FindFrom(s, sep, i + 1)

RECURSIVE Split(_, _)
Split(s, sep) ==
    LET k == FindFrom(s, sep, 1)
    IN  IF k = 0 THEN <<s>>
        ELSE <<SubSeq(s, 1, k - 1)>> \o Split(SubSeq(s, k + Len(sep), Len(s)), sep)

\* [l.strip() for l in s.split(sep)]
RECURSIVE StripAll(_)
StripAll(parts) ==
    IF parts = <<>> THEN <<>> ELSE <<Strip(Head(parts))>> \o StripAll(Tail(parts))

SplitStrip(s, sep) == StripAll(Split(s, sep))

\* "{}".format(x)
Format(x) == IF x = None THEN "None" ELSE x


(***************************************************************************)
(* Package, ConfigObject                                                   *)
(***************************************************************************)
\* Package.__init__
Package ==
    [package_name |-> None, package_version |-> None, recipe_name |-> None,
     license_string |-> None, licenses |-> <<>>]

\* ConfigObject.packageToSectionName
packageToSectionName(package) ==
    Format(package.package_name) \o "_" \o Format(package.recipe_name)
        \o "_" \o Format(package.package_version)

\* mutant of ConfigObject: a new object has the skip flag
ConfigObjectSkipping(package) ==
    [section_name |-> packageToSectionName(package),
     chosen_license |-> None,
     license_files |-> NoneList,
     additional_files |-> NoneList,
     skip_license_count_check |-> TRUE]

\* ConfigObject.__init__(package)
ConfigObject(package) ==
    [section_name |-> packageToSectionName(package),
     chosen_license |-> None,
     license_files |-> NoneList,
     additional_files |-> NoneList,
     skip_license_count_check |-> FALSE]

\* the value None where a ConfigObject is expected
NoneObject == [is_none |-> TRUE]

(***************************************************************************)
(* The configuration file.  A file is a function from section names to     *)
(* sections; a section holds the four keys as the strings written to the   *)
(* file.  JSON text is a sequence of tokens: null, or [ items ].           *)
(***************************************************************************)
\* json.dumps
JsonDumps(v) == IF v = NoneList THEN <<"null">> ELSE <<"[">> \o v \o <<"]">>

\* json.loads
JsonLoads(j) == IF j = <<"null">> THEN NoneList ELSE SubSeq(j, 2, Len(j) - 1)

\* RawConfigParser.getboolean
GetBoolean(v) == v \in {"1", "yes", "true", "on"}

\* Licenses.initConfig: self.config is <<>> (None) or <<sections>>
initConfig(config, config_file) ==
    IF config = <<>> THEN <<config_file>> ELSE config

\* ConfigParser.read: the sections of the file are merged into the parser
ConfigRead(sections, config_file) ==
    [s \in (DOMAIN sections) \cup (DOMAIN config_file) |->
        IF s \in DOMAIN config_file THEN config_file[s] ELSE sections[s]]

\* self.config after readConfigFile (lines 74-75)
ConfigAfterRead(config, config_file) ==
    <<ConfigRead(initConfig(config, config_file)[1], config_file)>>

\* mutant of readConfigFile: the chosen license is not read
readConfigFileWithoutChoice(config, config_file, package) ==
    LET sections == ConfigAfterRead(config, config_file)[1]
        section_name == packageToSectionName(package)
    IN  IF section_name \in DOMAIN sections
        THEN [section_name |-> section_name,
              chosen_license |-> None,
              license_files |-> JsonLoads(sections[section_name].LicenseFiles),
              additional_files |-> JsonLoads(sections[section_name].AdditionalFiles),
              skip_license_count_check |->
                  GetBoolean(sections[section_name].SkipLicenseCountCheck)]
        ELSE NoneObject

\* Licenses.readConfigFile: the returned object
readConfigFile(config, config_file, package) ==
    LET sections == ConfigAfterRead(config, config_file)[1]
        section_name == packageToSectionName(package)
    IN  IF section_name \in DOMAIN sections
        THEN [section_name |-> section_name,
              chosen_license |-> sections[section_name].ChosenLicense,
              license_files |-> JsonLoads(sections[section_name].LicenseFiles),
              additional_files |-> JsonLoads(sections[section_name].AdditionalFiles),
              skip_license_count_check |->
                  GetBoolean(sections[section_name].SkipLicenseCountCheck)]
        ELSE NoneObject

\* mutant of SectionOf: the chosen license is not written
SectionOfWithoutChoice(config_object) ==
    [ChosenLicense |-> "",
     LicenseFiles |-> JsonDumps(config_object.license_files),
     AdditionalFiles |-> JsonDumps(config_object.additional_files),
     SkipLicenseCountCheck |-> IF config_object.skip_license_count_check
                               THEN "yes" ELSE "no"]

\* the section updateConfigFile stores for a ConfigObject (lines 98-101)
SectionOf(config_object) ==
    [ChosenLicense |-> IF config_object.chosen_license # None
                       THEN config_object.chosen_license ELSE "",
     LicenseFiles |-> JsonDumps(config_object.license_files),
     AdditionalFiles |-> JsonDumps(config_object.additional_files),
     SkipLicenseCountCheck |-> IF config_object.skip_license_count_check
                               THEN "yes" ELSE "no"]

\* mutant of updateConfigFile: the file is overwritten with the one section
updateConfigFileOverwriting(config, config_file, config_object) ==
    [s \in {config_object.section_name} |-> SectionOf(config_object)]

\* Licenses.updateConfigFile: the sections of self.config, which are also
\* what is written to the file
updateConfigFile(config, config_file, config_object) ==
    LET sections == initConfig(config, config_file)[1]
    IN  [s \in (DOMAIN sections) \cup {config_object.section_name} |->
            IF s = config_object.section_name
            THEN SectionOf(config_object) ELSE sections[s]]

(***************************************************************************)
(* The inputs: license.manifest files as the build system writes them      *)
(* (PACKAGE NAME, PACKAGE VERSION, RECIPE NAME, LICENSE, blank line), the  *)
(* files under the tmp directory and the configuration file a user left.   *)
(***************************************************************************)
Paragraph(name, version, recipe, license) ==
    <<"PACKAGE NAME: " \o name \o "\n",
      "PACKAGE VERSION: " \o version \o "\n",
      "RECIPE NAME: " \o recipe \o "\n">>
    \o (IF license = None THEN <<>> ELSE <<"LICENSE: " \o license \o "\n">>)
    \o <<"\n">>

Paragraphs ==
    { Paragraph("a", "1", "r", "MIT"),
      Paragraph("a", "1", "r", "MIT | GPL"),
      Paragraph("b", "1", "r", "MIT & GPL"),
      Paragraph("b", "1", "r", "MIT & BSD | GPL"),
      Paragraph("b", "1", "r", "CLOSED & CLOSED"),
      Paragraph("a", "1", "r", None),
      Paragraph("c", "1", "s", "CLOSED"),
      Paragraph("c", "2", "s", "MIT"),
      Paragraph("packagegroup-core", "2", "r", "MIT") }

RECURSIVE Flatten(_)
Flatten(paragraphs) ==
    IF paragraphs = <<>> THEN <<>> ELSE Head(paragraphs) \o Flatten(Tail(paragraphs))

\* a manifest that does not end with a blank line, one with a line without
\* ': ', and one whose last line is cut after the key
OtherManifests ==
    { <<"PACKAGE NAME: a\n", "PACKAGE VERSION: 1\n", "RECIPE NAME: r\n",
        "LICENSE: MIT\n">>,
      <<"PACKAGE NAME: a\n", "PACKAGE VERSION: 1\n", "RECIPE NAME: r\n",
        "PACKAGE ARCH\n", "LICENSE: MIT\n", "\n">>,
      <<"PACKAGE NAME: a\n", "PACKAGE VERSION: 1\n", "RECIPE NAME: r\n",
        "LICENSE">> }

Manifests ==
    UNION { {Flatten(ps) : ps \in [1..n -> Paragraphs]} : n \in 0..MaxParagraphs }
    \cup OtherManifests

\* the regular files below the tmp directory
tmpdir_files == {"f1", "f2"}

\* os.path.isfile(os.path.join(self.tmpdir, lfp))
isfile(lfp) == lfp \in tmpdir_files

\* a section as a user may have left it in the configuration file
UserSection(chosen_license, license_files, skip) ==
    [ChosenLicense |-> chosen_license,
     LicenseFiles |-> JsonDumps(license_files),
     AdditionalFiles |-> JsonDumps(NoneList),
     SkipLicenseCountCheck |-> skip]

UserSections ==
    { UserSection("", NoneList, "yes"),
      UserSection("", <<"f1", "f2">>, "no"),
      UserSection("GPL", <<"f1">>, "no"),
      UserSection("GPL", <<"f1">>, "yes"),
      UserSection("GPL", <<"f1", "f2">>, "no"),
      UserSection("GPL", <<"f1", "nofile">>, "yes"),
      UserSection("BSD", <<"f1", "nofile">>, "no") }

\* the sections of the packages of Paragraphs and of their merged records
SectionNames ==
    {"a_r_1", "b_r_1", "c_s_1", "c_s_2", "packagegroup-core_r_2", "r_r_1", "r_r_2",
     "s_s_1", "s_s_2"}

EmptyFile == [s \in {} |-> 0]

ConfigFiles == {EmptyFile} \cup {[s \in SectionNames |-> d] : d \in UserSections}

(***************************************************************************)
(* State                                                                   *)
(***************************************************************************)
VARIABLES
    manifest,           \* the lines of the manifest file
    config_file,        \* the contents of the file at self.config_file
    config,             \* self.config: <<>> (None) or <<sections>>
    packages,           \* self.packages
    package,            \* the local variable package of parseManifest
    lineno,             \* the next line of the manifest to read
    recipes,            \* self.recipes, in insertion order
    licenses,           \* self.licenses, in insertion order
    recipe_index,       \* position of the merge loop in self.recipes
    packages_filtered,  \* self.packages_filtered
    filtered_index,     \* position of the collect loop in packages_filtered
    pc,                 \* where the run is: parse, merge, filter, collect,
                        \* parsed (parseManifest returned), done (a view was
                        \* printed or written), aborted
    error,              \* the line of the raise that ended the run, or 0
    input_calls,        \* number of calls of input() in this run
    run,                \* number of the run
    choices,            \* history: the calls of userChoice in this run
    previous,           \* history: how the previous run ended, the
                        \* answers stored by all earlier runs and the
                        \* configuration file this run started from
    output              \* what main printed and wrote after parseManifest

vars == <<manifest, config_file, config, packages, package, lineno, recipes,
          licenses, recipe_index, packages_filtered, filtered_index, pc,
          error, input_calls, run, choices, previous, output>>

\* nothing is printed, self.json_packages is empty and the file of the
\* option --json is not written: outfile is <<>> or <<the list written>>
NoOutput == [view |-> "none", lines |-> <<>>, json_packages |-> <<>>, outfile |-> <<>>]

\* Licenses.__init__ and the entry of parseManifest (lines 53-62, 171)
NewLicenses ==
    /\ config = <<>>
    /\ packages = <<>>
    /\ package = Package
    /\ lineno = 1
    /\ recipes = <<>>
    /\ licenses = <<>>
    /\ recipe_index = 1
    /\ packages_filtered = <<>>
    /\ filtered_index = 1
    /\ pc = "parse"
    /\ error = 0
    /\ input_calls = 0
    /\ choices = <<>>
    /\ output = NoOutput

\* history: no run before the first one
NoPrevious ==
    [pc |-> "none", error |-> 0, packages_filtered |-> <<>>, licenses |-> <<>>,
     asked |-> <<>>, store |-> config_file]

Init ==
    /\ manifest \in Manifests
    /\ config_file \in ConfigFiles
    /\ run = 1
    /\ previous = NoPrevious
    /\ NewLicenses

(***************************************************************************)
(* parseManifest, the loop over the lines of the manifest (lines 172-205)  *)
(***************************************************************************)
Keys == {"PACKAGE NAME", "PACKAGE VERSION", "RECIPE NAME", "LICENSE"}

line == manifest[lineno]

\* tmp = line.split(': ')
tmp == Split(line, ": ")

AtLine == pc = "parse" /\ lineno <= Len(manifest)

\* the answers of the user at the prompt of userChoice
ChooserAnswers == {-1, 0, 1, 2}

\* seq[index] of Python: defined for -len <= index < len
ValidIndex(seq, index) == index >= -Len(seq) /\ index < Len(seq)

Item(seq, index) == IF index >= 0 THEN seq[index + 1] ELSE seq[Len(seq) + index + 1]

\* lines 174-179: a blank line ends the paragraph
NewPackage ==
    /\ AtLine
    /\ line = "\n"
    /\ packages' = Append(packages, package)
    /\ package' = Package
    /\ lineno' = lineno + 1
    /\ UNCHANGED <<manifest, config_file, config, recipes, licenses, recipe_index,
                   packages_filtered, filtered_index, pc, error, input_calls, run, choices, previous, output>>

\* lines 184-189: PACKAGE NAME, PACKAGE VERSION, RECIPE NAME
ParseKey ==
    /\ AtLine
    /\ line # "\n"
    /\ LET t == tmp
       IN  /\ t[1] \in {"PACKAGE NAME", "PACKAGE VERSION", "RECIPE NAME"}
           /\ Len(t) >= 2
           /\ package' =
                IF t[1] = "PACKAGE NAME"
                THEN [package EXCEPT !.package_name = Strip(t[2])]
                ELSE IF t[1] = "PACKAGE VERSION"
                THEN [package EXCEPT !.package_version = Strip(t[2])]
                ELSE [package EXCEPT !.recipe_name = Strip(t[2])]
    /\ lineno' = lineno + 1
    /\ UNCHANGED <<manifest, config_file, config, packages, recipes, licenses,
                   recipe_index, packages_filtered, filtered_index, pc, error,
                   input_calls, run, choices, previous, output>>

\* a line with another first field is skipped (no branch of lines 184-190)
SkipLine ==
    /\ AtLine
    /\ line # "\n"
    /\ tmp[1] \notin Keys
    /\ lineno' = lineno + 1
    /\ UNCHANGED <<manifest, config_file, config, packages, package, recipes,
                   licenses, recipe_index, packages_filtered, filtered_index, pc,
                   error, input_calls, run, choices, previous, output>>

\* tmp[1] of a key line without ': ' raises IndexError (lines 185-192)
ParseKeyIndexError ==
    /\ AtLine
    /\ line # "\n"
    /\ LET t == tmp
       IN  /\ t[1] \in Keys
           /\ Len(t) < 2
    /\ pc' = "aborted"
    /\ error' = 185
    /\ UNCHANGED <<manifest, config_file, config, packages, package, lineno,
                   recipes, licenses, recipe_index, packages_filtered,
                   filtered_index, input_calls, run, choices, previous, output>>

\* the line is a LICENSE line with the fields t
AtLicense(t) ==
    /\ t[1] = "LICENSE"
    /\ Len(t) >= 2

\* package after line 192
WithLicenseString(t) == [package EXCEPT !.license_string = Strip(t[2])]

\* lines 193-195: both | and & in the license string
ParseLicenseMixed ==
    /\ AtLine
    /\ line # "\n"
    /\ LET t == tmp
           p == WithLicenseString(t)
       IN  /\ AtLicense(t)
           /\ Contains(p.license_string, "|")
           /\ Contains(p.license_string, "&")
           /\ package' = p
    /\ pc' = "aborted"
    /\ error' = 195
    /\ UNCHANGED <<manifest, config_file, config, packages, lineno, recipes,
                   licenses, recipe_index, packages_filtered, filtered_index,
                   input_calls, run, choices, previous, output>>

\* lines 201-205: a combination of licenses or a single license
ParseLicense ==
    /\ AtLine
    /\ line # "\n"
    /\ LET t == tmp
           p == WithLicenseString(t)
       IN  /\ AtLicense(t)
           /\ ~Contains(p.license_string, "|")
           /\ package' =
                IF Contains(p.license_string, "&")
                THEN [p EXCEPT !.licenses = SplitStrip(Strip(t[2]), "&")]
                ELSE [p EXCEPT !.licenses = Append(@, p.license_string)]
    /\ lineno' = lineno + 1
    /\ UNCHANGED <<manifest, config_file, config, packages, recipes, licenses,
                   recipe_index, packages_filtered, filtered_index, pc, error,
                   input_calls, run, choices, previous, output>>

\* mutant of AtChoice: '&' is taken for a choice as well
AtChoiceOrCombination(t, p) ==
    /\ AtLicense(t)
    /\ Contains(p.license_string, "|") \/ Contains(p.license_string, "&")
    /\ ~(Contains(p.license_string, "|") /\ Contains(p.license_string, "&"))

\* mutant of AtChoice: '|' is tested before the mixed expression
AtChoiceBeforeMixed(t, p) ==
    /\ AtLicense(t)
    /\ Contains(p.license_string, "|")

\* lines 196-199: a choice of licenses
AtChoice(t, p) ==
    /\ AtLicense(t)
    /\ Contains(p.license_string, "|")
    /\ ~Contains(p.license_string, "&")

\* userChoice, line 117
ChoiceLicenses(p) == SplitStrip(p.license_string, "|")

\* mutant of NeedsInput: the user is asked whatever the file holds
NeedsInputAlways(conf_object) == TRUE

\* userChoice, line 125
NeedsInput(conf_object) ==
    IF conf_object = NoneObject THEN TRUE
    ELSE conf_object.chosen_license = None \/ conf_object.chosen_license = ""

\* mutant of ChoiceToStore: a new object is stored whatever the file holds
ChoiceToStoreFresh(p, conf_object, chosen_license) ==
    [ConfigObject(p) EXCEPT !.chosen_license = chosen_license]

\* userChoice, lines 134-136: the object that is stored
ChoiceToStore(p, conf_object, chosen_license) ==
    [(IF conf_object = NoneObject THEN ConfigObject(p) ELSE conf_object)
        EXCEPT !.chosen_license = chosen_license]

\* history: a call of userChoice for the record in progress; section_name is
\* the section readConfigFile looks up (line 77) and updateConfigFile writes
Choice(chosen_license, asked) ==
    [lineno |-> lineno, record |-> Len(packages) + 1,
     chosen_license |-> chosen_license, asked |-> asked,
     section_name |-> packageToSectionName(package)]

\* userChoice asks the user (lines 125-137) and parseManifest appends the
\* answer (line 199); licenses[index] raises IndexError for an index out of range
UserChoiceInput ==
    /\ AtLine
    /\ line # "\n"
    /\ LET t == tmp
           p == WithLicenseString(t)
           conf_object == readConfigFile(config, config_file, p)
           choice_licenses == ChoiceLicenses(p)
       IN  /\ AtChoice(t, p)
           /\ NeedsInput(conf_object)
           /\ \E index \in ChooserAnswers :
                IF ValidIndex(choice_licenses, index)
                THEN LET chosen_license == Strip(Item(choice_licenses, index))
                         sections == updateConfigFile(
                                         ConfigAfterRead(config, config_file),
                                         config_file,
                                         ChoiceToStore(p, conf_object, chosen_license))
                     IN  /\ choices' = Append(choices, Choice(chosen_license, TRUE))
                         /\ config' = <<sections>>
                         /\ config_file' = sections
                         /\ package' = [p EXCEPT !.licenses = Append(@, chosen_license)]
                         /\ lineno' = lineno + 1
                         /\ UNCHANGED <<pc, error>>
                ELSE /\ choices' = Append(choices, Choice(None, TRUE))
                     /\ config' = ConfigAfterRead(config, config_file)
                     /\ package' = p
                     /\ pc' = "aborted"
                     /\ error' = 131
                     /\ UNCHANGED <<config_file, lineno>>
    /\ input_calls' = input_calls + 1
    /\ UNCHANGED <<manifest, packages, recipes, licenses, recipe_index,
                   packages_filtered, filtered_index, run, previous, output>>

\* userChoice takes the decision of the config file (lines 138-147)
UserChoiceStored ==
    /\ AtLine
    /\ line # "\n"
    /\ LET t == tmp
           p == WithLicenseString(t)
           conf_object == readConfigFile(config, config_file, p)
       IN  /\ AtChoice(t, p)
           /\ ~NeedsInput(conf_object)
           /\ choices' = Append(choices, Choice(conf_object.chosen_license, FALSE))
           /\ IF conf_object.chosen_license \in Range(ChoiceLicenses(p))
              THEN /\ package' = [p EXCEPT
                                      !.licenses = Append(@, conf_object.chosen_license)]
                   /\ lineno' = lineno + 1
                   /\ UNCHANGED <<pc, error>>
              ELSE /\ package' = p
                   /\ pc' = "aborted"
                   /\ error' = 147
                   /\ UNCHANGED lineno
    /\ config' = ConfigAfterRead(config, config_file)
    /\ UNCHANGED <<manifest, config_file, packages, recipes, licenses, recipe_index,
                   packages_filtered, filtered_index, input_calls, run, previous, output>>

(***************************************************************************)
(* parseManifest after the last line: the indexes (lines 212-224)          *)
(***************************************************************************)
\* dict[key] = [package] or dict[key].append(package); a dict is the
\* sequence of its items in insertion order
DictAppend(dict, key, p) ==
    IF \E i \in DOMAIN dict : dict[i].key = key
    THEN [i \in DOMAIN dict |->
            IF dict[i].key = key
            THEN [dict[i] EXCEPT !.packages = Append(@, p)] ELSE dict[i]]
    ELSE Append(dict, [key |-> key, packages |-> <<p>>])

\* lines 212-216
RECURSIVE GroupByRecipe(_, _)
GroupByRecipe(dict, ps) ==
    IF ps = <<>> THEN dict
    ELSE GroupByRecipe(DictAppend(dict, Head(ps).recipe_name, Head(ps)), Tail(ps))

\* lines 220-224
RECURSIVE AddLicenses(_, _, _)
AddLicenses(dict, p, ls) ==
    IF ls = <<>> THEN dict
    ELSE AddLicenses(DictAppend(dict, Head(ls), p), p, Tail(ls))

\* lines 219-224
RECURSIVE GroupByLicense(_, _)
GroupByLicense(dict, ps) ==
    IF ps = <<>> THEN dict
    ELSE GroupByLicense(AddLicenses(dict, Head(ps), Head(ps).licenses), Tail(ps))

\* end of the manifest: the package in progress is dropped and the
\* packages are grouped by recipe and by license
GroupPackages ==
    /\ pc = "parse"
    /\ lineno > Len(manifest)
    /\ recipes' = GroupByRecipe(recipes, packages)
    /\ licenses' = GroupByLicense(licenses, packages)
    /\ pc' = IF packages = <<>> THEN "filter" ELSE "merge"
    /\ UNCHANGED <<manifest, config_file, config, packages, package, lineno,
                   recipe_index, packages_filtered, filtered_index, error,
                   input_calls, run, choices, previous, output>>

(***************************************************************************)
(* parseManifest, one turn of the merge loop (lines 228-269)               *)
(***************************************************************************)
\* lines 233-236
AllLicenses(ps) == UNION {Range(ps[i].licenses) : i \in DOMAIN ps}

\* mutant of SanityCheck: the check of the combinations is missing
RECURSIVE SanityCheckChoiceOnly(_, _)
SanityCheckChoiceOnly(ps, all_licenses) ==
    IF ps = <<>> THEN 0
    ELSE IF Head(ps).license_string = None THEN 240
    ELSE IF Contains(Head(ps).license_string, "|") /\ Cardinality(all_licenses) # 1
    THEN 241
    ELSE SanityCheckChoiceOnly(Tail(ps), all_licenses)

\* the line of the raise of the sanity check of lines 239-243, 0 if it passes;
\* "|" in None is a TypeError at line 240
RECURSIVE SanityCheck(_, _)
SanityCheck(ps, all_licenses) ==
    IF ps = <<>> THEN 0
    ELSE IF Head(ps).license_string = None THEN 240
    ELSE IF Contains(Head(ps).license_string, "|") /\ Cardinality(all_licenses) # 1
    THEN 241
    ELSE IF Contains(Head(ps).license_string, "&") /\ Cardinality(all_licenses) <= 1
    THEN 243
    ELSE SanityCheck(Tail(ps), all_licenses)

\* mutant of CanMerge: the members must have the same licenses as well
CanMergeSameLicenses(ps) ==
    /\ \A i \in DOMAIN ps : ps[i].package_version = ps[1].package_version
    /\ \A i \in DOMAIN ps : Range(ps[i].licenses) = Range(ps[1].licenses)

\* line 245
CanMerge(ps) ==
    /\ \A i \in DOMAIN ps : ps[i].package_version = ps[1].package_version
    /\ \A i \in DOMAIN ps : Range(ps[i].licenses) \subseteq AllLicenses(ps)

\* lines 247-252
Merged(recipe, ps) ==
    [package_name |-> recipe,
     recipe_name |-> recipe,
     package_version |-> ps[1].package_version,
     license_string |-> ps[1].license_string,
     licenses |-> ps[1].licenses]

\* list.remove: without the first item equal to p
RECURSIVE Remove(_, _)
Remove(list, p) ==
    IF list = <<>> THEN <<>>
    ELSE IF Head(list) = p THEN Tail(list)
    ELSE <<Head(list)>> \o Remove(Tail(list), p)

\* lines 266-267
RECURSIVE RemoveAll(_, _)
RemoveAll(list, ps) ==
    IF ps = <<>> THEN list ELSE RemoveAll(Remove(list, Head(ps)), Tail(ps))

AfterRecipe == IF recipe_index = Len(recipes) THEN "filter" ELSE "merge"

MergeRecipe ==
    /\ pc = "merge"
    /\ LET recipe == recipes[recipe_index].key
           ps == recipes[recipe_index].packages
           raised == SanityCheck(ps, AllLicenses(ps))
       IN  IF raised # 0
           THEN /\ pc' = "aborted"
                /\ error' = raised
                /\ UNCHANGED <<packages, recipe_index>>
           ELSE /\ packages' = IF CanMerge(ps)
                               THEN Append(RemoveAll(packages, ps), Merged(recipe, ps))
                               ELSE packages
                /\ recipe_index' = recipe_index + 1
                /\ pc' = AfterRecipe
                /\ UNCHANGED error
    /\ UNCHANGED <<manifest, config_file, config, package, lineno, recipes, licenses,
                   packages_filtered, filtered_index, input_calls, run, choices, previous, output>>

(***************************************************************************)
(* parseManifest, the filter (lines 273-284)                               *)
(***************************************************************************)
\* the packages appended to packages_filtered, and the line of the raise if
\* the loop ended with one: None.startswith is an AttributeError at line 279
RECURSIVE FilterPackages(_, _)
FilterPackages(ps, filtered) ==
    IF ps = <<>> THEN [raised |-> 0, packages_filtered |-> filtered]
    ELSE IF Len(Head(ps).licenses) = 1 /\ Head(ps).licenses[1] = "CLOSED"
    THEN FilterPackages(Tail(ps), filtered)
    ELSE IF Head(ps).package_name = None
    THEN [raised |-> 279, packages_filtered |-> filtered]
    ELSE IF StartsWith(Head(ps).package_name, "packagegroup")
    THEN FilterPackages(Tail(ps), filtered)
    ELSE FilterPackages(Tail(ps), Append(filtered, Head(ps)))

Filter ==
    /\ pc = "filter"
    /\ LET result == FilterPackages(packages, packages_filtered)
       IN  /\ packages_filtered' = result.packages_filtered
           /\ error' = result.raised
           /\ pc' = IF result.raised # 0 THEN "aborted"
                    ELSE IF result.packages_filtered = <<>> THEN "parsed"
                    ELSE "collect"
    /\ UNCHANGED <<manifest, config_file, config, packages, package, lineno,
                   recipes, licenses, recipe_index, filtered_index, input_calls,
                   run, choices, previous, output>>

(***************************************************************************)
(* parseManifest, one turn of the loop over the filtered packages          *)
(* (lines 288-319)                                                         *)
(***************************************************************************)
\* line 297
NumLicFiles(conf_object) ==
    IF conf_object.license_files # NoneList THEN Len(conf_object.license_files) ELSE 0

\* mutant of LicenseFilesMissing: the number of files is not compared
LicenseFilesMissingNotCounted(p, conf_object) ==
    /\ NumLicFiles(conf_object) > 0
    /\ ~ \A i \in DOMAIN conf_object.license_files :
            isfile(conf_object.license_files[i])

\* line 298
LicenseFilesMissing(p, conf_object) ==
    IF Len(p.licenses) > NumLicFiles(conf_object) THEN TRUE
    ELSE /\ NumLicFiles(conf_object) > 0
         /\ ~ \A i \in DOMAIN conf_object.license_files :
                 isfile(conf_object.license_files[i])

CollectLicenseFiles ==
    /\ pc = "collect"
    /\ LET p == packages_filtered[filtered_index]
           read == readConfigFile(config, config_file, p)
           conf_object == IF read = NoneObject THEN ConfigObject(p) ELSE read
           sections == IF read = NoneObject
                       THEN updateConfigFile(ConfigAfterRead(config, config_file),
                                             config_file, conf_object)
                       ELSE ConfigAfterRead(config, config_file)[1]
       IN  /\ config' = <<sections>>
           /\ config_file' = IF read = NoneObject THEN sections ELSE config_file
           /\ IF LicenseFilesMissing(p, conf_object)
                 /\ ~conf_object.skip_license_count_check
              THEN /\ pc' = "aborted"
                   /\ error' = 319
                   /\ UNCHANGED filtered_index
              ELSE /\ filtered_index' = filtered_index + 1
                   /\ pc' = IF filtered_index = Len(packages_filtered)
                            THEN "parsed" ELSE "collect"
                   /\ UNCHANGED error
    /\ UNCHANGED <<manifest, packages, package, lineno, recipes, licenses,
                   recipe_index, packages_filtered, input_calls, run, choices,
                   previous, output>>

(***************************************************************************)
(* main after parseManifest (lines 464-471): one view is printed or the    *)
(* JSON file is written, as the options of the command line say.  The      *)
(* lines of a view are its lines without headlines and rulers.             *)
(***************************************************************************)
\* sep.join(list)
RECURSIVE Join(_, _)
Join(sep, list) ==
    IF list = <<>> THEN ""
    ELSE IF Len(list) = 1 THEN Head(list)
    ELSE Head(list) \o sep \o Join(sep, Tail(list))

\* the lines "  - name" of the packages of one entry (lines 405-406, 416-417)
RECURSIVE PackageLines(_)
PackageLines(ps) ==
    IF ps = <<>> THEN <<>>
    ELSE <<"  - " \o Format(Head(ps).package_name)>> \o PackageLines(Tail(ps))

\* lines 396-397
RECURSIVE LicenseList(_)
LicenseList(dict) ==
    IF dict = <<>> THEN <<>> ELSE <<Head(dict).key>> \o LicenseList(Tail(dict))

\* lines 402-407 and 413-418
RECURSIVE EntryLines(_, _)
EntryLines(title, dict) ==
    IF dict = <<>> THEN <<>>
    ELSE <<title \o " '" \o Format(Head(dict).key) \o "':">>
         \o PackageLines(Head(dict).packages) \o EntryLines(title, Tail(dict))

\* line 426
PackageRow(p) ==
    Join(", ", <<Format(p.package_name), Format(p.package_version),
                 Format(p.recipe_name), Join(" & ", p.licenses)>>)

\* lines 425-426
RECURSIVE PackageRows(_)
PackageRows(ps) ==
    IF ps = <<>> THEN <<>> ELSE <<PackageRow(Head(ps))>> \o PackageRows(Tail(ps))

\* Licenses.printLicenses
PrintLicenses ==
    /\ pc = "parsed"
    /\ output' = [output EXCEPT
                     !.view = "licenses",
                     !.lines = LicenseList(licenses) \o EntryLines("License", licenses)]
    /\ pc' = "done"
    /\ UNCHANGED <<manifest, config_file, config, packages, package, lineno, recipes,
                   licenses, recipe_index, packages_filtered, filtered_index,
                   error, input_calls, run, choices, previous>>

\* Licenses.printRecipes
PrintRecipes ==
    /\ pc = "parsed"
    /\ output' = [output EXCEPT !.view = "recipes",
                                !.lines = EntryLines("Recipe", recipes)]
    /\ pc' = "done"
    /\ UNCHANGED <<manifest, config_file, config, packages, package, lineno, recipes,
                   licenses, recipe_index, packages_filtered, filtered_index,
                   error, input_calls, run, choices, previous>>

\* Licenses.printPackages
PrintPackages ==
    /\ pc = "parsed"
    /\ output' = [output EXCEPT !.view = "packages",
                                !.lines = PackageRows(packages_filtered)]
    /\ pc' = "done"
    /\ UNCHANGED <<manifest, config_file, config, packages, package, lineno, recipes,
                   licenses, recipe_index, packages_filtered, filtered_index,
                   error, input_calls, run, choices, previous>>

\* the text of a file below the tmp directory
FileRead(path) == "text of " \o path \o "\n"

\* the ruler after the text of each file (lines 363-367, 375-379)
Ruler ==
    "\n\n================================================================================\n\n"

\* lines 358-367 and 370-379: the text gathered from the files of one list,
\* or opened = FALSE if open raises for one of them
RECURSIVE FilesText(_)
FilesText(files) ==
    IF files = <<>> THEN [opened |-> TRUE, text |-> ""]
    ELSE IF ~isfile(Head(files)) THEN [opened |-> FALSE, text |-> ""]
    ELSE LET rest == FilesText(Tail(files))
         IN  [opened |-> rest.opened,
              text |-> FileRead(Head(files)) \o Ruler \o rest.text]

\* lines 340-344 and 381
JsonPackage(p, lic_text) ==
    [name |-> p.package_name, version |-> p.package_version,
     license |-> Join(" & ", p.licenses), licenseText |-> lic_text]

\* the loop of generateLicenseJson (lines 339-383): self.json_packages, and
\* the line of the raise if the loop ended with one (open raises
\* FileNotFoundError at lines 360 and 372)
RECURSIVE JsonPackages(_, _)
JsonPackages(ps, json_packages) ==
    IF ps = <<>> THEN [raised |-> 0, json_packages |-> json_packages]
    ELSE LET conf_object == readConfigFile(config, config_file, Head(ps))
         IN  IF conf_object = NoneObject
             THEN [raised |-> 353, json_packages |-> json_packages]
             ELSE LET list(files) == IF files = NoneList THEN <<>> ELSE files
                      add == FilesText(list(conf_object.additional_files))
                      lic == FilesText(list(conf_object.license_files))
                  IN  IF ~add.opened
                      THEN [raised |-> 360, json_packages |-> json_packages]
                      ELSE IF ~lic.opened
                      THEN [raised |-> 372, json_packages |-> json_packages]
                      ELSE JsonPackages(Tail(ps),
                               Append(json_packages,
                                      JsonPackage(Head(ps), add.text \o lic.text)))

\* mutant of GenerateLicenseJson: the file is written although the loop raised
GenerateLicenseJsonPartial ==
    /\ pc = "parsed"
    /\ LET result == JsonPackages(packages_filtered, output.json_packages)
       IN  /\ config' = IF packages_filtered = <<>> THEN config
                        ELSE ConfigAfterRead(config, config_file)
           /\ output' = [output EXCEPT !.view = "json",
                                       !.json_packages = result.json_packages,
                                       !.outfile = <<result.json_packages>>]
           /\ IF result.raised # 0
              THEN /\ pc' = "aborted"
                   /\ error' = result.raised
              ELSE /\ pc' = "done"
                   /\ UNCHANGED error
    /\ UNCHANGED <<manifest, config_file, packages, package, lineno, recipes,
                   licenses, recipe_index, packages_filtered, filtered_index,
                   input_calls, run, choices, previous>>

\* Licenses.generateLicenseJson: the file is written after the loop
GenerateLicenseJson ==
    /\ pc = "parsed"
    /\ LET result == JsonPackages(packages_filtered, output.json_packages)
       IN  /\ config' = IF packages_filtered = <<>> THEN config
                        ELSE ConfigAfterRead(config, config_file)
           /\ IF result.raised # 0
              THEN /\ output' = [output EXCEPT !.json_packages = result.json_packages]
                   /\ pc' = "aborted"
                   /\ error' = result.raised
              ELSE /\ output' = [output EXCEPT !.view = "json",
                                               !.json_packages = result.json_packages,
                                               !.outfile = <<result.json_packages>>]
                   /\ pc' = "done"
                   /\ UNCHANGED error
    /\ UNCHANGED <<manifest, config_file, packages, package, lineno, recipes,
                   licenses, recipe_index, packages_filtered, filtered_index,
                   input_calls, run, choices, previous>>

\* history: the user was asked and the answer was stored
Stored(choice) == choice.asked /\ choice.chosen_license # None

(***************************************************************************)
(* The program is started again on the same manifest; the configuration    *)
(* file is as the previous run left it (main, lines 453-462).  A run that  *)
(* is in parsed was started without an option for a view.  previous.pc is  *)
(* how parseManifest of the previous run ended, or aborted if a later      *)
(* stage raised.                                                           *)
(***************************************************************************)
NewRun ==
    /\ pc \in {"parsed", "done", "aborted"}
    /\ run < MaxRuns
    /\ run' = run + 1
    /\ previous' = [pc |-> IF pc = "done" THEN "parsed" ELSE pc,
                    error |-> error,
                    packages_filtered |-> packages_filtered,
                    licenses |-> licenses,
                    asked |-> previous.asked \o SelectSeq(choices, Stored),
                    store |-> config_file]
    /\ config' = <<>>
    /\ packages' = <<>>
    /\ package' = Package
    /\ lineno' = 1
    /\ recipes' = <<>>
    /\ licenses' = <<>>
    /\ recipe_index' = 1
    /\ packages_filtered' = <<>>
    /\ filtered_index' = 1
    /\ pc' = "parse"
    /\ error' = 0
    /\ input_calls' = 0
    /\ choices' = <<>>
    /\ output' = NoOutput
    /\ UNCHANGED <<manifest, config_file>>

Next ==
    \/ NewPackage
    \/ ParseKey
    \/ SkipLine
    \/ ParseKeyIndexError
    \/ ParseLicenseMixed
    \/ ParseLicense
    \/ UserChoiceInput
    \/ UserChoiceStored
    \/ GroupPackages
    \/ MergeRecipe
    \/ Filter
    \/ CollectLicenseFiles
    \/ PrintLicenses
    \/ PrintRecipes
    \/ PrintPackages
    \/ GenerateLicenseJson
    \/ NewRun

Spec == Init /\ [][Next]_vars

(***************************************************************************)
(* A second specification: the keys of a paragraph may come in another     *)
(* order than the build system writes them, and the directories may be     *)
(* given neither by an option nor by the environment (lines 155-168).      *)
(***************************************************************************)
ParagraphLicenseFirst(name, version, recipe, license) ==
    <<"LICENSE: " \o license \o "\n",
      "PACKAGE NAME: " \o name \o "\n",
      "PACKAGE VERSION: " \o version \o "\n",
      "RECIPE NAME: " \o recipe \o "\n",
      "\n">>

ParagraphsAnyOrder ==
    { Paragraph("a", "1", "r", "MIT | GPL"),
      Paragraph("b", "1", "r", "MIT & BSD | GPL"),
      Paragraph("b", "1", "r", "CLOSED & CLOSED"),
      ParagraphLicenseFirst("a", "1", "r", "MIT | GPL"),
      ParagraphLicenseFirst("b", "1", "r", "MIT | GPL") }

ManifestsAnyOrder ==
    UNION { {Flatten(ps) : ps \in [1..n -> ParagraphsAnyOrder]} : n \in 0..MaxParagraphs }
    \cup OtherManifests

InitAnyOrder ==
    /\ manifest \in ManifestsAnyOrder
    /\ config_file \in ConfigFiles
    /\ run = 1
    /\ previous = NoPrevious
    /\ NewLicenses

\* the run has read no line yet
AtEntry == pc = "parse" /\ lineno = 1

\* lines 155-160: no option --builddir and no BUILDDIR in the environment
BuildDirNotSet ==
    /\ AtEntry
    /\ pc' = "aborted"
    /\ error' = 160
    /\ UNCHANGED <<manifest, config_file, config, packages, package, lineno, recipes,
                   licenses, recipe_index, packages_filtered, filtered_index,
                   input_calls, run, choices, previous, output>>

\* lines 163-168: no option --tmpdir and no TMPDIR in the environment
TmpDirNotSet ==
    /\ AtEntry
    /\ pc' = "aborted"
    /\ error' = 168
    /\ UNCHANGED <<manifest, config_file, config, packages, package, lineno, recipes,
                   licenses, recipe_index, packages_filtered, filtered_index,
                   input_calls, run, choices, previous, output>>

NextAnyOrder ==
    \/ Next
    \/ BuildDirNotSet
    \/ TmpDirNotSet

SpecAnyOrder == InitAnyOrder /\ [][NextAnyOrder]_vars

(***************************************************************************)
(* Properties                                                              *)
(***************************************************************************)
\* the set of the licenses of a list of packages
UnionLicenses(ps) == UNION {Range(ps[i].licenses) : i \in DOMAIN ps}

SameVersion(ps) == \A i \in DOMAIN ps : ps[i].package_version = ps[1].package_version

Last(seq) == seq[Len(seq)]

\* the run can only be left by starting the program again
StaysAborted == pc = "aborted" => (pc' = "parse" /\ run' = run + 1)

\* C1: when the merge loop collapses a recipe group (all members have one
\* version), the set of licenses of the merged record is the union of the
\* licenses of the members of the group.
C1_MergedLicensesAreUnion ==
    [][(/\ pc = "merge"
        /\ recipe_index' = recipe_index + 1
        /\ SameVersion(recipes[recipe_index].packages))
       => Range(Last(packages').licenses)
              = UnionLicenses(recipes[recipe_index].packages)]_vars

\* a record the filter has to drop: its set of licenses is {"CLOSED"} or its
\* name starts with packagegroup
Irrelevant(p) ==
    \/ Range(p.licenses) = {"CLOSED"}
    \/ StartsWith(p.package_name, "packagegroup")

Relevant(p) == ~Irrelevant(p)

FilterDone == pc \in {"collect", "parsed"} \/ (pc = "aborted" /\ error = 319)

\* C2: after the filter, packages_filtered is the merged package list without
\* the records whose license set is {"CLOSED"} or whose name starts with
\* packagegroup, in the same order and unchanged.
C2_FilterDropsExactlyClosedAndGroups ==
    FilterDone => packages_filtered = SelectSeq(packages, Relevant)

\* the Decision of a package as the configuration file holds it
HasDecision(p) == packageToSectionName(p) \in DOMAIN config_file

Decision(p) == config_file[packageToSectionName(p)]

Have(p) ==
    IF HasDecision(p) /\ Decision(p).LicenseFiles # <<"null">>
    THEN Len(Decision(p).LicenseFiles) - 2 ELSE 0

Required(p) == Cardinality(Range(p.licenses))

SomeFileMissing(p) ==
    /\ Have(p) > 0
    /\ \E i \in 2..(Have(p) + 1) : Decision(p).LicenseFiles[i] \notin tmpdir_files

SkipSet(p) ==
    HasDecision(p) /\ Decision(p).SkipLicenseCountCheck = "yes"

\* C3: the collect loop aborts the run at a filtered package if and only if
\* (it has more distinct licenses than the Decision lists license files, or a
\* listed file does not exist) and the skip flag of the Decision is not set.
C3_EvidenceAbortIff ==
    [][pc = "collect"
       => LET p == packages_filtered[filtered_index]
          IN  (pc' = "aborted")
                <=> ((Required(p) > Have(p) \/ SomeFileMissing(p)) /\ ~SkipSet(p))]_vars

\* the record a call of userChoice was made for, while the lines are parsed
RecordOf(choice) ==
    IF choice.record <= Len(packages) THEN packages[choice.record] ELSE package

NoChoiceInManifest == \A i \in DOMAIN manifest : ~Contains(manifest[i], "|")

\* C5: for a manifest without '|' neither userChoice nor input is called.
C5_NoChoiceNoChooser ==
    NoChoiceInManifest
    => (input_calls = 0 /\ choices = <<>> /\ previous.asked = <<>>)

C5_Witness ==
    /\ NoChoiceInManifest
    /\ \E i \in DOMAIN manifest : Contains(manifest[i], "&")
    /\ run = 2
    /\ pc = "parsed"
    /\ packages_filtered # <<>>
    /\ config_file # EmptyFile

\* the line is a LICENSE line with both '&' and '|'
MixedLicenseLine(l) ==
    StartsWith(l, "LICENSE: ") /\ Contains(l, "|") /\ Contains(l, "&")

\* C6: a license expression with both '&' and '|' aborts the run at that
\* line: the user is not asked, the record gets no licenses, the configuration
\* file is not written and no later stage runs.
C6_MixedExpressionAborts ==
    [][/\ (pc = "parse" /\ lineno <= Len(manifest) /\ MixedLicenseLine(manifest[lineno]))
          => /\ pc' = "aborted"
             /\ input_calls' = input_calls
             /\ choices' = choices
             /\ config_file' = config_file
             /\ package'.licenses = <<>>
             /\ packages' = packages
             /\ recipes' = <<>> /\ licenses' = <<>> /\ packages_filtered' = <<>>
       /\ StaysAborted]_vars

C6_Witness ==
    /\ pc = "aborted"
    /\ error = 195
    /\ packages # <<>>
    /\ package.license_string # None
    /\ config_file # EmptyFile

\* C7: a run that completes after a completed run on the same manifest, with
\* the configuration file as that run left it, has the same filtered package
\* list and the same license index.
C7_RerunIdempotent ==
    (run > 1 /\ pc = "parsed" /\ previous.pc = "parsed")
    => /\ packages_filtered = previous.packages_filtered
       /\ licenses = previous.licenses

C7_Witness ==
    /\ run = 2
    /\ pc = "parsed"
    /\ previous.pc = "parsed"
    /\ previous.asked # <<>>
    /\ input_calls = 0
    /\ Len(packages_filtered) > 0
    /\ Len(licenses) > 0

\* the section the step in progress may write
WrittenSection ==
    IF pc = "parse" THEN packageToSectionName(package)
    ELSE IF pc = "collect"
    THEN packageToSectionName(packages_filtered[filtered_index])
    ELSE None

\* C8: a step keeps every section of the configuration file, and changes no
\* section but the one of the package it handles.
C8_OtherSectionsKept ==
    [][\A s \in DOMAIN config_file :
          /\ s \in DOMAIN config_file'
          /\ (s # WrittenSection => config_file'[s] = config_file[s])]_vars

C8_Witness ==
    /\ run = 2
    /\ \E s1, s2 \in DOMAIN config_file :
          /\ s1 \in SectionNames /\ s2 \in SectionNames
          /\ config_file[s1].ChosenLicense = "MIT"
          /\ config_file[s2] = UserSection("", <<"f1", "f2">>, "no")

IsChoice(p) == p.license_string # None /\ Contains(p.license_string, "|")

IsCombination(p) == p.license_string # None /\ Contains(p.license_string, "&")

\* the group breaks one of the two rules of the sanity check
Inconsistent(ps) ==
    \/ (\E i \in DOMAIN ps : IsChoice(ps[i])) /\ Cardinality(UnionLicenses(ps)) # 1
    \/ (\E i \in DOMAIN ps : IsCombination(ps[i])) /\ Cardinality(UnionLicenses(ps)) <= 1

\* C9: a recipe group with a choice member whose licenses are not exactly
\* one, or with a combination member whose licenses are not more than one,
\* aborts the run before the group is merged and before the filter.
C9_SanityCheckAborts ==
    [][/\ (pc = "merge" /\ Inconsistent(recipes[recipe_index].packages))
          => /\ pc' = "aborted"
             /\ packages' = packages
             /\ packages_filtered' = <<>>
             /\ config_file' = config_file
       /\ StaysAborted]_vars

C9_Witness ==
    /\ pc = "aborted"
    /\ error = 241
    /\ recipe_index = 1
    /\ Len(recipes[1].packages) = 2
    /\ packages = recipes[1].packages

\* C10: a paragraph without LICENSE gives a record without license expression
\* and without licenses, and the merge loop raises for no other reason than an
\* inconsistent group.
C10_NoLicenseTolerated ==
    /\ \A i \in DOMAIN packages :
          packages[i].license_string = None => packages[i].licenses = <<>>
    /\ (pc = "aborted" /\ error \in 240..243)
       => Inconsistent(recipes[recipe_index].packages)

\* the number of paragraphs of a manifest: the blocks of lines that are not
\* blank, a block ending at a blank line or at the end of the manifest
RECURSIVE NonEmptyParagraphs(_)
NonEmptyParagraphs(lines) ==
    IF lines = <<>> THEN 0
    ELSE IF Head(lines) = "\n" THEN NonEmptyParagraphs(Tail(lines))
    ELSE IF Len(lines) = 1 \/ lines[2] = "\n" THEN 1 + NonEmptyParagraphs(Tail(lines))
    ELSE NonEmptyParagraphs(Tail(lines))

\* C11: when the last line of the manifest has been read, the package list
\* has one record for each paragraph, also for a last paragraph that is not
\* followed by a blank line.
C11_LastParagraphFlushed ==
    (pc = "parse" /\ lineno > Len(manifest))
    => Len(packages) = NonEmptyParagraphs(manifest)

\* the packages of the manifest with the recipe name of the record p, as
\* the recipe index holds them
ManifestPackagesOf(p) ==
    UNION { Range(recipes[g].packages) :
              g \in {h \in DOMAIN recipes : recipes[h].key = p.recipe_name} }

IsPackageGroup(q) == StartsWith(q.package_name, "packagegroup")

\* C12: a record of packages_filtered, and so a package of the JSON output
\* and a package whose license files are checked, never stands for package
\* groups alone: the manifest has a package of its recipe that is no package
\* group.
C12_PackageGroupsExcluded ==
    /\ \A i \in DOMAIN packages_filtered :
          \E q \in ManifestPackagesOf(packages_filtered[i]) : ~IsPackageGroup(q)
    /\ \A j \in DOMAIN output.json_packages :
          \E i \in DOMAIN packages_filtered :
             /\ output.json_packages[j].name = packages_filtered[i].package_name
             /\ \E q \in ManifestPackagesOf(packages_filtered[i]) : ~IsPackageGroup(q)

\* the line is a LICENSE line with a choice ('|' and no '&')
ChoiceLine(l) ==
    StartsWith(l, "LICENSE: ") /\ Contains(l, "|") /\ ~Contains(l, "&")

\* the trimmed tokens of the expression of a LICENSE line
Tokens(l) == SplitStrip(SubSeq(l, Len("LICENSE: ") + 1, Len(l)), "|")

\* the record in progress has a Decision with a chosen license
PriorChoice == HasDecision(package) /\ Decision(package).ChosenLicense # ""

Overridden(p) == (Required(p) > Have(p) \/ SomeFileMissing(p)) /\ SkipSet(p)

\* the JSON file was written with an entry for the record p
InJsonFile(out, p) ==
    /\ out.outfile # <<>>
    /\ \E j \in DOMAIN out.outfile[1] :
          /\ out.outfile[1][j].name = p.package_name
          /\ out.outfile[1][j].version = p.package_version

\* the package view was printed with a row for the record p
InPackageView(out, p) ==
    \E j \in DOMAIN out.lines : StartsWith(out.lines[j], p.package_name \o ", ")

\* C14: a filtered package with insufficient evidence and the skip flag does
\* not abort the run, stays in packages_filtered, and is in the package view
\* and in the JSON file when main prints or writes them.
C14_SkippedPackageEmitted ==
    [][/\ (pc = "collect" /\ Overridden(packages_filtered[filtered_index]))
          => (pc' # "aborted" /\ packages_filtered' = packages_filtered)
       /\ (pc = "parsed" /\ run' = run)
          => \A i \in DOMAIN packages_filtered :
                Overridden(packages_filtered[i])
                => IF output'.view \in {"licenses", "recipes"} THEN pc' = "done"
                   ELSE IF output'.view = "packages"
                   THEN InPackageView(output', packages_filtered[i])
                   ELSE InJsonFile(output', packages_filtered[i])]_vars

\* nothing of a report: no view printed, no JSON file written
NoReport == output.view = "none" /\ output.lines = <<>> /\ output.outfile = <<>>

\* C15: a run that raised has emitted no report, neither before nor at the
\* raise, and does nothing after it: no view is printed and no JSON file is
\* written; only a new start of the program follows.
C15_AbortEmitsNoReport ==
    /\ [](pc = "aborted" => NoReport)
    /\ [][/\ StaysAborted
          /\ (pc # "parsed" /\ run' = run) => output' = output]_vars

C15_Witness ==
    /\ pc = "aborted"
    /\ error = 372
    /\ packages_filtered # <<>>
    /\ input_calls = 1

\* the identity of a record: name, recipe name and version
Triple(p) == p.package_name \o "_" \o p.recipe_name \o "_" \o p.package_version

\* C18: while the lines are parsed, every call of userChoice for a record of
\* the package list has looked up and written the section of the identity of
\* that record, so calls for records with different identities have used
\* different sections.
C18_ChoiceKeyedByTriple ==
    pc = "parse"
    => /\ \A i \in DOMAIN choices :
             choices[i].record <= Len(packages)
             => choices[i].section_name = Triple(packages[choices[i].record])
       /\ \A i, j \in DOMAIN choices :
             (/\ choices[i].record <= Len(packages)
              /\ choices[j].record <= Len(packages)
              /\ Triple(packages[choices[i].record]) # Triple(packages[choices[j].record]))
             => choices[i].section_name # choices[j].section_name

\* the Decision of a package nobody has decided anything for
EmptyDecision ==
    [ChosenLicense |-> "", LicenseFiles |-> <<"null">>,
     AdditionalFiles |-> <<"null">>, SkipLicenseCountCheck |-> "no"]

\* C16: a turn of the collect loop for a package without Decision adds the
\* empty Decision of that package to the configuration file, whether it then
\* aborts or not; a turn for a package with a Decision leaves the file as it is.
C16_ValidatorSeedsEmptyDecision ==
    [][pc = "collect"
       => LET p == packages_filtered[filtered_index]
          IN  IF HasDecision(p)
              THEN config_file' = config_file
              ELSE /\ DOMAIN config_file' = DOMAIN config_file \cup {Triple(p)}
                   /\ config_file'[Triple(p)] = EmptyDecision
                   /\ \A s \in DOMAIN config_file : config_file'[s] = config_file[s]]_vars

C16_Witness ==
    /\ run = 1
    /\ pc = "aborted"
    /\ error = 319
    /\ DOMAIN config_file = {"r_r_1"}
    /\ config_file["r_r_1"] = EmptyDecision

\* the line is not blank and has no ': '
Unsplittable(l) == l # "\n" /\ ~Contains(l, ": ")

\* C17: no run gets past a line of the manifest that is not blank and cannot
\* be split at ': '.
C17_UnsplittableLineAborts ==
    \A i \in DOMAIN manifest :
       Unsplittable(manifest[i]) => (lineno <= i /\ pc \in {"parse", "aborted"})

NoDecisionAtStart(p) == Triple(p) \notin DOMAIN previous.store

\* C20: a turn of the collect loop for a package with a license and without
\* Decision at the start of the run aborts the run, so a run that completes
\* started with a Decision for every filtered package that has a license, and
\* a run from an empty file completes only without such packages.
C20_NoDecisionAborts ==
    /\ [][(/\ pc = "collect"
           /\ NoDecisionAtStart(packages_filtered[filtered_index])
           /\ Len(packages_filtered[filtered_index].licenses) >= 1)
          => (pc' = "aborted" /\ error' = 319)]_vars
    /\ [](pc \in {"parsed", "done"}
          => \A i \in DOMAIN packages_filtered :
                Len(packages_filtered[i].licenses) >= 1
                => ~NoDecisionAtStart(packages_filtered[i]))

C20_Witness ==
    /\ pc = "aborted"
    /\ error = 319
    /\ previous.store = EmptyFile
    /\ input_calls = 1
    /\ Len(packages_filtered[filtered_index].licenses) = 1

\* the section s of the configuration file holds a chosen license
HasChoice(file, s) == s \in DOMAIN file /\ file[s].ChosenLicense # ""

\* C21: no step, of this run or of a later one, removes or changes a stored
\* chosen license that is not empty; a chosen license appears in a section
\* only when the user was asked, and the license files, the additional files
\* and the skip flag the section had are kept by that write.
C21_ChosenLicenseNeverChanged ==
    [][/\ \A s \in DOMAIN config_file :
             HasChoice(config_file, s)
             => /\ s \in DOMAIN config_file'
                /\ config_file'[s].ChosenLicense = config_file[s].ChosenLicense
       /\ \A s \in DOMAIN config_file' :
             (HasChoice(config_file', s) /\ ~HasChoice(config_file, s))
             => /\ input_calls' = input_calls + 1
                /\ pc = "parse"
                /\ s \in DOMAIN config_file
                   => /\ config_file'[s].LicenseFiles = config_file[s].LicenseFiles
                      /\ config_file'[s].AdditionalFiles = config_file[s].AdditionalFiles
                      /\ config_file'[s].SkipLicenseCountCheck
                            = config_file[s].SkipLicenseCountCheck]_vars

C21_Witness ==
    /\ run = 2
    /\ pc = "parsed"
    /\ input_calls = 0
    /\ choices # <<>>
    /\ previous.asked # <<>>
    /\ "a_r_1" \in DOMAIN config_file
    /\ config_file["a_r_1"] = UserSection("MIT", <<"f1", "f2">>, "no")
    /\ config_file["r_r_1"] = UserSection("", <<"f1", "f2">>, "no")

=============================================================================
